---- MODULE Spec2Model ----
(***************************************************************************)
(* Hybrid game search service: provider fetchers (FitGirl, DODI), the      *)
(* Google live-search adapter, the Meilisearch repository and GameService. *)
(*                                                                         *)
(* Strings are sequences of one-character strings, so that startsWith and  *)
(* encodeURIComponent are computed character by character.  A JavaScript   *)
(* value is a record [t, s]: t is its type tag and s its characters (empty *)
(* unless t = "string").  A call that may throw yields [raised, v].        *)
(***************************************************************************)
EXTENDS Integers, Sequences, FiniteSets, TLC

VARIABLES
    index,   \* the Meilisearch index: the set of stored documents, one per id
    sync,    \* the syncDatabase invocation in flight (or idle)
    last,    \* the last request the service completed, with its envelope
    call     \* one adapter invocation on one upstream response (adapter-level runs)

vars == <<index, sync, last, call>>

---------------------------------------------------------------------------
(* Bounds *)

\* longest `downloads` / `items` array of an adapter-level run
MaxEntries == 1

---------------------------------------------------------------------------
(* JavaScript values and primitives *)

JsString(s) == [t |-> "string", s |-> s]
JsUndefined == [t |-> "undefined", s |-> <<>>]
JsNumber == [t |-> "number", s |-> <<"7">>]

\* ToBoolean: undefined and "" are falsy, a non-empty string and 7 are truthy
Truthy(v) == \/ v.t = "string" /\ v.s # <<>>
             \/ v.t = "number"

\* String.prototype.startsWith (case-sensitive prefix test)
StartsWith(s, p) == Len(s) >= Len(p) /\ SubSeq(s, 1, Len(p)) = p

Return(v) == [raised |-> FALSE, v |-> v]
Raise == [raised |-> TRUE, v |-> <<>>]

\* a lone UTF-16 surrogate code unit (one element of a string)
LoneSurrogate == "uD800"

\* the characters encodeURIComponent leaves as they are
UriUnreserved ==
    {"A", "B", "C", "D", "E", "F", "G", "H", "I", "J", "K", "L", "M", "N", "O", "P", "Q", "R",
    "S", "T", "U", "V", "W", "X", "Y", "Z", "a", "b", "c", "d", "e", "f", "g", "h", "i", "j",
    "k", "l", "m", "n", "o", "p", "q", "r", "s", "t", "u", "v", "w", "x", "y", "z", "0", "1",
    "2", "3", "4", "5", "6", "7", "8", "9", "-", "_", ".", "!", "~", "*", "'", "(", ")"}

\* the UTF-8 percent escape of a reserved ASCII character
PercentEscape(c) ==
    CASE c = " " -> <<"%", "2", "0">>
      [] c = "#" -> <<"%", "2", "3">>
      [] c = "%" -> <<"%", "2", "5">>
      [] c = "&" -> <<"%", "2", "6">>
      [] c = "+" -> <<"%", "2", "B">>
      [] c = "/" -> <<"%", "2", "F">>
      [] c = ":" -> <<"%", "3", "A">>
      [] c = "=" -> <<"%", "3", "D">>
      [] c = "?" -> <<"%", "3", "F">>

RECURSIVE EncodeChars(_)
EncodeChars(s) ==
    IF s = <<>> THEN <<>>
    ELSE (IF Head(s) \in UriUnreserved THEN <<Head(s)>> ELSE PercentEscape(Head(s)))
         \o EncodeChars(Tail(s))

\* encodeURIComponent: URIError on a lone surrogate, else the escaped string
EncodeURIComponent(s) ==
    IF \E i \in 1..Len(s) : s[i] = LoneSurrogate THEN Raise
    ELSE Return(EncodeChars(s))

\* crypto md5 hex digest, taken as collision-free: the digest of s is the
\* tagged input, so equal digests come from equal inputs only
Md5Hex(s) == <<"md5">> \o s

---------------------------------------------------------------------------
(* String constants of the source *)

FitGirlSearchUrl == <<"h", "t", "t", "p", "s", ":", "/", "/", "f", "i", "t", "g", "i", "r", "l", "-", "r", "e", "p", "a", "c", "k", "s", ".", "s", "i", "t", "e", "/", "?", "s", "=">>
DodiSearchUrl == <<"h", "t", "t", "p", "s", ":", "/", "/", "d", "o", "d", "i", "-", "r", "e", "p", "a", "c", "k", "s", ".", "s", "i", "t", "e", "/", "?", "s", "=">>
HttpPrefix == <<"h", "t", "t", "p">>
MagnetPrefix == <<"m", "a", "g", "n", "e", "t", ":">>
FitGirlIdPrefix == <<"f", "i", "t", "g", "i", "r", "l", "-">>
DodiIdPrefix == <<"d", "o", "d", "i", "-">>
FitGirlSource == <<"F", "i", "t", "G", "i", "r", "l">>
DodiSource == <<"D", "O", "D", "I">>
UnknownSize == <<"U", "n", "k", "n", "o", "w", "n">>

---------------------------------------------------------------------------
(* Upstream data the runs draw from *)

HttpsLink == <<"h", "t", "t", "p", "s", ":", "/", "/", "a", ".", "i", "o", "/", "g">>
FtpLink == <<"f", "t", "p", ":", "/", "/", "a", ".", "i", "o", "/", "f">>
MagnetUri == <<"m", "a", "g", "n", "e", "t", ":", "?", "x", "t", "=", "a">>
UpperLink == <<"H", "T", "T", "P", ":", "/", "/", "A">>
OtherHttps == <<"h", "t", "t", "p", "s", ":", "/", "/", "b", ".", "i", "o", "/", "z">>
TitlePlain == <<"G", " ", "1">>
SizeText == <<"5", " ", "G", "B">>
DateText == <<"2", "0", "2", "3">>
TitleSurrogate == <<"G", LoneSurrogate>>

JsArray(a) == [t |-> "array", a |-> a]
NoArray == [t |-> "undefined", a |-> <<>>]
NotAnArray == [t |-> "object", a |-> <<>>]

RawLinks ==
    {JsUndefined, JsString(<<>>), JsString(HttpsLink), JsString(FtpLink),
     JsString(MagnetUri), JsString(UpperLink), JsNumber}

RawUris ==
    {NoArray, JsArray(<<>>), JsArray(<<JsString(<<>>)>>),
     JsArray(<<JsString(MagnetUri)>>), JsArray(<<JsString(FtpLink)>>),
     JsArray(<<JsString(MagnetUri), JsString(OtherHttps)>>)}

RawTitles == {TitlePlain, TitleSurrogate}

RawMeta == {<<JsUndefined, JsUndefined>>, <<JsString(SizeText), JsString(DateText)>>}

\* an entry of `downloads`: an object, or null
RawObject(title, link, uris, meta) ==
    [t |-> "object", title |-> JsString(title), link |-> link, uris |-> uris,
     fileSize |-> meta[1], uploadDate |-> meta[2]]
NullEntry ==
    [t |-> "null", title |-> JsUndefined, link |-> JsUndefined, uris |-> NoArray,
     fileSize |-> JsUndefined, uploadDate |-> JsUndefined]

RawItems ==
    {RawObject(ti, l, u, m) : ti \in RawTitles, l \in RawLinks, u \in RawUris, m \in RawMeta}
    \cup {NullEntry}

SeqsUpTo(S, n) == UNION {[1..k -> S] : k \in 0..n}

\* what axios.get(url) of a provider document can give
ProviderResponse(net, body, downloads) ==
    [net |-> net, body |-> body, downloads |-> downloads]
MalformedProviderResponses ==
    {ProviderResponse("error", "undefined", NoArray),
     ProviderResponse("ok", "undefined", NoArray),
     ProviderResponse("ok", "object", NoArray),
     ProviderResponse("ok", "object", NotAnArray)}
ProviderResponses(items, n) ==
    MalformedProviderResponses
    \cup {ProviderResponse("ok", "object", JsArray(a)) : a \in SeqsUpTo(items, n)}

---------------------------------------------------------------------------
(* FitGirlProvider *)

\* mutant: the alternative URIs are tried before the direct link
FitGirlPageUrl_UrisFirst(item) ==
    IF item.uris.t = "array" /\ item.uris.a # <<>> /\ Truthy(item.uris.a[1])
    THEN Return(item.uris.a[1])
    ELSE IF Truthy(item.link) /\ item.link.t # "string" THEN Raise
    ELSE IF Truthy(item.link) /\ StartsWith(item.link.s, HttpPrefix) THEN Return(item.link)
    ELSE LET enc == EncodeURIComponent(item.title.s)
         IN  IF enc.raised THEN Raise ELSE Return(JsString(FitGirlSearchUrl \o enc.v))

\* mutant: the title is appended to the search URL without encoding
FitGirlPageUrl_NoEncode(item) ==
    IF Truthy(item.link) /\ item.link.t # "string" THEN Raise
    ELSE IF Truthy(item.link) /\ StartsWith(item.link.s, HttpPrefix) THEN Return(item.link)
    ELSE IF item.uris.t = "array" /\ item.uris.a # <<>> /\ Truthy(item.uris.a[1])
         THEN Return(item.uris.a[1])
    ELSE Return(JsString(FitGirlSearchUrl \o item.title.s))

\* mutant: any truthy direct link is used, the scheme check is dropped
FitGirlPageUrl_AnyLink(item) ==
    IF Truthy(item.link) THEN Return(item.link)
    ELSE IF item.uris.t = "array" /\ item.uris.a # <<>> /\ Truthy(item.uris.a[1])
         THEN Return(item.uris.a[1])
    ELSE LET enc == EncodeURIComponent(item.title.s)
         IN  IF enc.raised THEN Raise ELSE Return(JsString(FitGirlSearchUrl \o enc.v))

\* mutant: the alternative URIs are left out, as in the tests' own copy of the rule
FitGirlPageUrl_TwoTier(item) ==
    IF Truthy(item.link) /\ item.link.t # "string" THEN Raise
    ELSE IF Truthy(item.link) /\ StartsWith(item.link.s, HttpPrefix) THEN Return(item.link)
    ELSE LET enc == EncodeURIComponent(item.title.s)
         IN  IF enc.raised THEN Raise ELSE Return(JsString(FitGirlSearchUrl \o enc.v))

\* const pageUrl = item.link && item.link.startsWith("http") ? item.link
\*                 : (item.uris && item.uris[0]) || `${search}${encodeURIComponent(title)}`
FitGirlPageUrl(item) ==
    IF Truthy(item.link) /\ item.link.t # "string" THEN Raise
    ELSE IF Truthy(item.link) /\ StartsWith(item.link.s, HttpPrefix) THEN Return(item.link)
    ELSE IF item.uris.t = "array" /\ item.uris.a # <<>> /\ Truthy(item.uris.a[1])
         THEN Return(item.uris.a[1])
    ELSE LET enc == EncodeURIComponent(item.title.s)
         IN  IF enc.raised THEN Raise ELSE Return(JsString(FitGirlSearchUrl \o enc.v))

\* mutant: the digest is taken over the title and the resolved URL
FitGirlGame_IdFromUrl(item) ==
    IF item.t = "null" THEN Raise
    ELSE LET pageUrl == FitGirlPageUrl(item)
         IN  IF pageUrl.raised THEN Raise
             ELSE Return([id |-> JsString(Md5Hex(FitGirlIdPrefix \o item.title.s
                                                 \o pageUrl.v.s)),
                          title |-> item.title,
                          source |-> JsString(FitGirlSource),
                          webpageUrl |-> pageUrl.v,
                          size |-> IF Truthy(item.fileSize) THEN item.fileSize
                                   ELSE JsString(UnknownSize),
                          uploadDate |-> item.uploadDate])

\* the callback of data.map
FitGirlGame(item) ==
    IF item.t = "null" THEN Raise
    ELSE LET pageUrl == FitGirlPageUrl(item)
         IN  IF pageUrl.raised THEN Raise
             ELSE Return([id |-> JsString(Md5Hex(FitGirlIdPrefix \o item.title.s)),
                          title |-> item.title,
                          source |-> JsString(FitGirlSource),
                          webpageUrl |-> pageUrl.v,
                          size |-> IF Truthy(item.fileSize) THEN item.fileSize
                                   ELSE JsString(UnknownSize),
                          uploadDate |-> item.uploadDate])

\* the try block: axios.get, response.data.downloads, data.map
FitGirlTry(response) ==
    IF response.net = "error" THEN Raise
    ELSE IF response.body = "undefined" THEN Raise
    ELSE IF response.downloads.t # "array" THEN Raise
    ELSE LET data == response.downloads.a
         IN  IF \E i \in 1..Len(data) : FitGirlGame(data[i]).raised THEN Raise
             ELSE Return([i \in 1..Len(data) |-> FitGirlGame(data[i]).v])

\* mutant: no catch, the error leaves fetchGames
FitGirlFetchGames_NoCatch(response) == FitGirlTry(response)

\* mutant: an entry that cannot be normalised is skipped, the others are kept
FitGirlFetchGames_SkipBad(response) ==
    IF \/ response.net = "error" \/ response.body = "undefined"
       \/ response.downloads.t # "array"
    THEN Return(<<>>)
    ELSE LET IsGood(item) == ~FitGirlGame(item).raised
             good == SelectSeq(response.downloads.a, IsGood)
         IN  Return([i \in 1..Len(good) |-> FitGirlGame(good[i]).v])

\* try { ... } catch (error) { return [] }
FitGirlFetchGames(response) ==
    LET r == FitGirlTry(response) IN IF r.raised THEN Return(<<>>) ELSE r

---------------------------------------------------------------------------
(* DodiProvider *)

\* mutant: the alternative URIs are never consulted
DodiPageUrl_SkipUris(item) ==
    IF Truthy(item.link) /\ item.link.t # "string" THEN Raise
    ELSE IF Truthy(item.link) /\ StartsWith(item.link.s, HttpPrefix) THEN Return(item.link)
    ELSE LET enc == EncodeURIComponent(item.title.s)
         IN  IF enc.raised THEN Raise ELSE Return(JsString(DodiSearchUrl \o enc.v))

\* mutant: the scheme prefix of the direct link is tested without regard to case
DodiPageUrl_AnyCase(item) ==
    IF Truthy(item.link) /\ item.link.t # "string" THEN Raise
    ELSE IF /\ Truthy(item.link)
            /\ \/ StartsWith(item.link.s, HttpPrefix)
               \/ StartsWith(item.link.s, <<"H", "T", "T", "P">>)
         THEN Return(item.link)
    ELSE IF item.uris.t = "array" /\ item.uris.a # <<>> /\ Truthy(item.uris.a[1])
         THEN Return(item.uris.a[1])
    ELSE LET enc == EncodeURIComponent(item.title.s)
         IN  IF enc.raised THEN Raise ELSE Return(JsString(DodiSearchUrl \o enc.v))

DodiPageUrl(item) ==
    IF Truthy(item.link) /\ item.link.t # "string" THEN Raise
    ELSE IF Truthy(item.link) /\ StartsWith(item.link.s, HttpPrefix) THEN Return(item.link)
    ELSE IF item.uris.t = "array" /\ item.uris.a # <<>> /\ Truthy(item.uris.a[1])
         THEN Return(item.uris.a[1])
    ELSE LET enc == EncodeURIComponent(item.title.s)
         IN  IF enc.raised THEN Raise ELSE Return(JsString(DodiSearchUrl \o enc.v))

DodiGame(item) ==
    IF item.t = "null" THEN Raise
    ELSE LET pageUrl == DodiPageUrl(item)
         IN  IF pageUrl.raised THEN Raise
             ELSE Return([id |-> JsString(Md5Hex(DodiIdPrefix \o item.title.s)),
                          title |-> item.title,
                          source |-> JsString(DodiSource),
                          webpageUrl |-> pageUrl.v,
                          size |-> IF Truthy(item.fileSize) THEN item.fileSize
                                   ELSE JsString(UnknownSize),
                          uploadDate |-> item.uploadDate])

\* the try block; `if (!Array.isArray(data)) return []` comes before the map
DodiTry(response) ==
    IF response.net = "error" THEN Raise
    ELSE IF response.body = "undefined" THEN Raise
    ELSE IF response.downloads.t # "array" THEN Return(<<>>)
    ELSE LET data == response.downloads.a
         IN  IF \E i \in 1..Len(data) : DodiGame(data[i]).raised THEN Raise
             ELSE Return([i \in 1..Len(data) |-> DodiGame(data[i]).v])

DodiFetchGames(response) ==
    LET r == DodiTry(response) IN IF r.raised THEN Return(<<>>) ELSE r

---------------------------------------------------------------------------
(* GoogleSearchProvider *)

\* a hit of the Custom Search API: an object, or a null entry
GoogleHit(title, link, displayLink, snippet) ==
    [t |-> "object", title |-> title, link |-> link, displayLink |-> displayLink,
     snippet |-> snippet]
NullHit ==
    [t |-> "null", title |-> JsUndefined, link |-> JsUndefined,
     displayLink |-> JsUndefined, snippet |-> JsUndefined]

GoogleResponse(net, body, items) == [net |-> net, body |-> body, items |-> items]

\* mutant: the snippet is not copied into the Listing
GoogleGame_NoSnippet(item) ==
    IF item.t = "null" THEN Raise
    ELSE Return([title |-> item.title, webpageUrl |-> item.link,
                 source |-> item.displayLink])

\* items.map((item) => ({title, webpageUrl: item.link, source: item.displayLink, snippet}))
GoogleGame(item) ==
    IF item.t = "null" THEN Raise
    ELSE Return([title |-> item.title, webpageUrl |-> item.link,
                 source |-> item.displayLink, snippet |-> item.snippet])

\* the try block: axios.get, response.data.items || [], items.map
GoogleTry(response) ==
    IF response.net = "error" THEN Raise
    ELSE IF response.body = "undefined" THEN Raise
    ELSE IF response.items.t = "undefined" THEN Return(<<>>)
    ELSE IF response.items.t # "array" THEN Raise
    ELSE LET items == response.items.a
         IN  IF \E i \in 1..Len(items) : GoogleGame(items[i]).raised THEN Raise
             ELSE Return([i \in 1..Len(items) |-> GoogleGame(items[i]).v])

FetchFromDirectory(response) ==
    LET r == GoogleTry(response) IN IF r.raised THEN Return(<<>>) ELSE r

---------------------------------------------------------------------------
(* GameRepository over the Meilisearch index *)

SearchLimit == 50
AttributesToRetrieve == {"id", "title", "source", "uris", "size", "uploadDate"}

\* JSON.stringify of a document: a property whose value is undefined is dropped
ToJson(game) == [k \in {f \in DOMAIN game : game[f].t # "undefined"} |-> game[k]]

\* mutant: documents are added without looking for a stored one of the same id
UpsertDocument_Insert(docs, doc) == docs \cup {doc}

\* updateDocuments on one document: added when its id is new, else its fields
\* are written over those of the stored document with that id
UpsertDocument(docs, doc) ==
    IF \E d \in docs : d.id = doc.id
    THEN LET old == CHOOSE d \in docs : d.id = doc.id
         IN  (docs \ {old})
             \cup {[k \in DOMAIN old \cup DOMAIN doc |->
                       IF k \in DOMAIN doc THEN doc[k] ELSE old[k]]}
    ELSE docs \cup {doc}

RECURSIVE UpdateDocuments(_, _)
UpdateDocuments(docs, games) ==
    IF games = <<>> THEN docs
    ELSE UpdateDocuments(UpsertDocument(docs, ToJson(Head(games))), Tail(games))

\* saveBatch: index.updateDocuments(games, {primaryKey: "id"}); raises when the
\* index cannot be reached
SaveBatch(docs, games, reachable) ==
    IF reachable THEN Return(UpdateDocuments(docs, games)) ELSE Raise

\* mutant: hits are put into one Listing shape that has a snippet property
Hit_Unified(doc) ==
    [k \in (DOMAIN doc \cap AttributesToRetrieve) \cup {"snippet"} |->
        IF k \in DOMAIN doc THEN doc[k] ELSE JsUndefined]

\* a hit: the stored document restricted to attributesToRetrieve
Hit(doc) == [k \in DOMAIN doc \cap AttributesToRetrieve |-> doc[k]]

\* mutant: search absorbs an unreachable index into an empty result
Search_Swallow(matched, reachable) ==
    IF ~reachable THEN Return(<<>>)
    ELSE Return([i \in 1..Len(matched) |-> Hit(matched[i])])

\* search: index.search(query, {limit: 50, attributesToRetrieve}); `matched` is
\* the engine's ranked list of matching documents
Search(matched, reachable) ==
    IF ~reachable THEN Raise
    ELSE LET n == IF Len(matched) < SearchLimit THEN Len(matched) ELSE SearchLimit
         IN  Return([i \in 1..n |-> Hit(matched[i])])

\* the ranked lists the engine may answer with: distinct documents of the index
RankedLists(docs) ==
    {m \in SeqsUpTo(docs, Cardinality(docs)) :
        \A i, j \in 1..Len(m) : i # j => m[i] # m[j]}

---------------------------------------------------------------------------
(* ServiceResponse and GameService *)

StatusOK == 200
StatusNotFound == 404
StatusInternalServerError == 500
StatusBadGateway == 502

Null == [t |-> "null", s |-> <<>>]

ServiceResponseSuccess(message, responseObject, statusCode) ==
    [success |-> TRUE, message |-> message, responseObject |-> responseObject,
     statusCode |-> statusCode]
ServiceResponseFailure(message, responseObject, statusCode) ==
    [success |-> FALSE, message |-> message, responseObject |-> responseObject,
     statusCode |-> statusCode]

\* mutant: the schema has no min(1)
SearchGameSchema_NoMin(q) == TRUE

\* SearchGameSchema: query.q is a string of at least one character
SearchGameSchema(q) == Len(q) >= 1

\* validateRequest(schema): a request that fails the schema is answered at once
\* with a 400 envelope and the controller is not called
StatusBadRequest == 400
Rejected(route, query) ==
    [op |-> "rejected", route |-> route, query |-> query, adapterCalls |-> 0,
     response |-> ServiceResponseFailure(<<"Invalid input">>, Null, StatusBadRequest)]

\* mutant: searchGames has no try/catch, the repository's rejection escapes
SearchGamesResponse_NoCatch(games) ==
    IF games.raised THEN [thrown |-> "error"]
    ELSE [success |-> TRUE, message |-> <<"Games found">>,
          responseObject |-> games.v, statusCode |-> 200]

\* mutant: an empty result is answered as not found, as the Google path does
SearchGamesResponse_EmptyIs404(games) ==
    IF games.raised
    THEN [success |-> FALSE, message |-> <<"Failed to search games: ", "error">>,
          responseObject |-> <<>>, statusCode |-> 500]
    ELSE IF Len(games.v) = 0
    THEN [success |-> FALSE, message |-> <<"No games found">>,
          responseObject |-> <<>>, statusCode |-> 404]
    ELSE [success |-> TRUE, message |-> <<"Games found">>,
          responseObject |-> games.v, statusCode |-> 200]

\* mutant: the failure envelope carries null, as the documented error format
SearchGamesResponse_NullOnFailure(games) ==
    IF ~games.raised
    THEN ServiceResponseSuccess(<<"Games found">>, games.v, StatusOK)
    ELSE ServiceResponseFailure(<<"Failed to search games: ", "error">>, Null,
                                StatusInternalServerError)

\* searchGames, given what gameRepository.search gave
SearchGamesResponse(games) ==
    IF ~games.raised
    THEN ServiceResponseSuccess(<<"Games found">>, games.v, StatusOK)
    ELSE ServiceResponseFailure(<<"Failed to search games: ", "error">>, <<>>,
                                StatusInternalServerError)

\* mutant: the `games.length === 0` branch is missing
SearchGamesFromGoogleResponse_NoEmptyCheck(games) ==
    IF games.raised
    THEN [success |-> FALSE, message |-> <<"Google Directory search failed: ", "error">>,
          responseObject |-> <<>>, statusCode |-> 500]
    ELSE [success |-> TRUE, message |-> <<"Games found from Google Directory">>,
          responseObject |-> games.v, statusCode |-> 200]

\* searchGamesFromGoogle, given what fetchFromDirectory gave
SearchGamesFromGoogleResponse(games) ==
    IF games.raised
    THEN ServiceResponseFailure(<<"Google Directory search failed: ", "error">>, <<>>,
                                StatusInternalServerError)
    ELSE IF Len(games.v) = 0
    THEN ServiceResponseFailure(<<"No games found in Google Directory">>, <<>>,
                                StatusNotFound)
    ELSE ServiceResponseSuccess(<<"Games found from Google Directory">>, games.v,
                                StatusOK)

\* syncDatabase after Promise.all: results.forEach(games => allGames.push(...games))
\* mutant: only the first provider's games are kept
AllGames_OnlyFirst(results) == results["FitGirl"].v

AllGames(results) == results["FitGirl"].v \o results["DODI"].v

\* mutant: an empty batch is answered as not found, as the Google path does
SyncEmptyResponse_NotFound ==
    ServiceResponseFailure(<<"No games fetched from external providers">>, Null,
                           StatusNotFound)

SyncEmptyResponse ==
    ServiceResponseFailure(<<"No games fetched from external providers">>, Null,
                           StatusBadGateway)
\* mutant: the message counts the distinct ids of the batch
SyncSuccessResponse_DistinctCount(allGames) ==
    ServiceResponseSuccess(
        <<"Successfully synced ",
          ToString(Cardinality({allGames[i].id : i \in 1..Len(allGames)})), " games">>,
        Null, StatusOK)

SyncSuccessResponse(allGames) ==
    ServiceResponseSuccess(<<"Successfully synced ", ToString(Len(allGames)), " games">>,
                           Null, StatusOK)
SyncFailedResponse ==
    ServiceResponseFailure(<<"Sync failed: ", "error">>, Null, StatusInternalServerError)

\* mutant: saveBatch is not awaited, so its rejection never reaches the catch
SyncSaveResponse_NotAwaited(saved, allGames) == SyncSuccessResponse(allGames)

\* syncDatabase after `await saveBatch(allGames)`: the success envelope, or the
\* catch's envelope when saveBatch rejected
SyncSaveResponse(saved, allGames) ==
    IF saved.raised THEN SyncFailedResponse ELSE SyncSuccessResponse(allGames)

---------------------------------------------------------------------------
(* State before any request *)

SyncIdle == [pc |-> "idle"]
NoRequest == [op |-> "none"]
NoCall == [adapter |-> "none"]

---------------------------------------------------------------------------
(* Adapter-level runs: one adapter applied to one upstream response *)

GoogleHits ==
    {GoogleHit(JsString(TitlePlain), JsString(HttpsLink), JsString(<<"a", ".", "i", "o">>),
               JsString(<<"r", "e", "p", "a", "c", "k">>)),
     GoogleHit(JsString(TitlePlain), JsString(OtherHttps), JsString(<<"b", ".", "i", "o">>),
               JsUndefined),
     NullHit}

GoogleResponses(hits, n) ==
    {GoogleResponse("error", "undefined", NoArray),
     GoogleResponse("ok", "undefined", NoArray),
     GoogleResponse("ok", "object", NoArray),
     GoogleResponse("ok", "object", NotAnArray)}
    \cup {GoogleResponse("ok", "object", JsArray(a)) : a \in SeqsUpTo(hits, n)}

NewCall(adapter, response) ==
    [adapter |-> adapter, response |-> response, done |-> FALSE, result |-> Return(<<>>)]

AdapterInit ==
    /\ index = {}
    /\ sync = SyncIdle
    /\ last = NoRequest
    /\ call \in {NewCall(a, r) : a \in {"FitGirl", "DODI"},
                                 r \in ProviderResponses(RawItems, MaxEntries)}
                \cup {NewCall("Google", r) : r \in GoogleResponses(GoogleHits, MaxEntries)}

RunFitGirl ==
    /\ call.adapter = "FitGirl" /\ ~call.done
    /\ call' = [call EXCEPT !.done = TRUE, !.result = FitGirlFetchGames(call.response)]
    /\ UNCHANGED <<index, sync, last>>

RunDodi ==
    /\ call.adapter = "DODI" /\ ~call.done
    /\ call' = [call EXCEPT !.done = TRUE, !.result = DodiFetchGames(call.response)]
    /\ UNCHANGED <<index, sync, last>>

RunGoogle ==
    /\ call.adapter = "Google" /\ ~call.done
    /\ call' = [call EXCEPT !.done = TRUE, !.result = FetchFromDirectory(call.response)]
    /\ UNCHANGED <<index, sync, last>>

AdapterNext == RunFitGirl \/ RunDodi \/ RunGoogle

SpecAdapter == AdapterInit /\ [][AdapterNext]_vars

---------------------------------------------------------------------------
(* The service: searchGames, searchGamesFromGoogle and syncDatabase *)

\* longest `downloads` array a provider document holds during a sync
MaxDownloads == 2
\* longest `items` array the Custom Search API answers with
MaxHits == 2

Queries == {<<>>, <<"g">>}

\* the provider entries a sync draws from: a record with a direct link, a
\* record of the same title with alternative URIs only, and a null entry
SyncItems ==
    {RawObject(TitlePlain, JsString(HttpsLink), JsArray(<<JsString(MagnetUri)>>),
               <<JsString(SizeText), JsString(DateText)>>),
     RawObject(TitlePlain, JsUndefined,
               JsArray(<<JsString(MagnetUri), JsString(OtherHttps)>>),
               <<JsUndefined, JsUndefined>>),
     NullEntry}

Providers == {"FitGirl", "DODI"}

Pending == [settled |-> FALSE, raised |-> FALSE, v |-> <<>>]
Settled(r) == [settled |-> TRUE, raised |-> r.raised, v |-> r.v]

Init ==
    /\ index = {}
    /\ sync = SyncIdle
    /\ last = NoRequest
    /\ call = NoCall

\* GET /games/search and GET /games/search/google pass validateRequest before
\* the controller calls the service.
\* A search reads the index in one call, so a search served while a sync is in
\* flight sees the index as it is before or after that sync's saveBatch; the
\* requests are therefore taken one at a time, and `last` is the request just
\* served (none while a sync is in flight).
\* mutant: a failed index search is tried a second time
SearchGames_Retry ==
    /\ sync.pc = "idle"
    /\ \E query \in Queries, reachable \in BOOLEAN, again \in BOOLEAN,
          matched \in RankedLists(index) :
          last' = IF ~SearchGameSchema(query) THEN Rejected("searchGames", query)
                  ELSE [op |-> "searchGames", query |-> query, adapterCalls |-> 1,
                        calls |-> IF reachable THEN <<"index.search">>
                                  ELSE <<"index.search", "index.search">>,
                        reachable |-> reachable \/ again,
                        found |-> Search(matched, reachable \/ again),
                        response |->
                            SearchGamesResponse(Search(matched, reachable \/ again))]
    /\ UNCHANGED <<index, sync, call>>

SearchGames ==
    /\ sync.pc = "idle"
    /\ \E query \in Queries, reachable \in BOOLEAN, matched \in RankedLists(index) :
          last' = IF ~SearchGameSchema(query) THEN Rejected("searchGames", query)
                  ELSE [op |-> "searchGames", query |-> query, adapterCalls |-> 1,
                        calls |-> <<"index.search">>,
                        reachable |-> reachable,
                        found |-> Search(matched, reachable),
                        response |-> SearchGamesResponse(Search(matched, reachable))]
    /\ UNCHANGED <<index, sync, call>>

\* mutant: the live search stores what it found in the index
SearchGamesFromGoogle_Caching ==
    /\ sync.pc = "idle"
    /\ \E query \in Queries, upstream \in GoogleResponses(GoogleHits, MaxHits) :
          LET games == FetchFromDirectory(upstream).v
          IN  /\ last' = IF ~SearchGameSchema(query)
                         THEN Rejected("searchGamesFromGoogle", query)
                         ELSE [op |-> "searchGamesFromGoogle", query |-> query,
                               adapterCalls |-> 1, upstream |-> upstream,
                               calls |-> <<"customsearch.get">>,
                               response |-> SearchGamesFromGoogleResponse(
                                                FetchFromDirectory(upstream))]
              /\ index' = IF ~SearchGameSchema(query) THEN index
                          ELSE UpdateDocuments(index,
                                   [i \in 1..Len(games) |->
                                       [id |-> games[i].webpageUrl] @@ games[i]])
    /\ UNCHANGED <<sync, call>>

SearchGamesFromGoogle ==
    /\ sync.pc = "idle"
    /\ \E query \in Queries, upstream \in GoogleResponses(GoogleHits, MaxHits) :
          last' = IF ~SearchGameSchema(query)
                  THEN Rejected("searchGamesFromGoogle", query)
                  ELSE [op |-> "searchGamesFromGoogle", query |-> query,
                        adapterCalls |-> 1, upstream |-> upstream,
                        calls |-> <<"customsearch.get">>,
                        response |->
                            SearchGamesFromGoogleResponse(FetchFromDirectory(upstream))]
    /\ UNCHANGED <<index, sync, call>>

\* syncDatabase: Promise.all over the providers' fetchGames
SyncStart ==
    /\ sync.pc = "idle"
    /\ sync' = [pc |-> "fetching", results |-> [p \in Providers |-> Pending],
                before |-> index, saveBatchCalls |-> 0]
    /\ last' = NoRequest
    /\ UNCHANGED <<index, call>>

\* this.fitgirlProvider.fetchGames() settles, the provider answering with one
\* of `responses`
FetchFitGirlFrom(responses) ==
    /\ sync.pc = "fetching" /\ ~sync.results["FitGirl"].settled
    /\ \E response \in responses :
          sync' = [sync EXCEPT !.results["FitGirl"] = Settled(FitGirlFetchGames(response))]
    /\ UNCHANGED <<index, last, call>>

\* this.dodiProvider.fetchGames() settles
FetchDodiFrom(responses) ==
    /\ sync.pc = "fetching" /\ ~sync.results["DODI"].settled
    /\ \E response \in responses :
          sync' = [sync EXCEPT !.results["DODI"] = Settled(DodiFetchGames(response))]
    /\ UNCHANGED <<index, last, call>>

FetchFitGirl == FetchFitGirlFrom(ProviderResponses(SyncItems, MaxDownloads))

FetchDodi == FetchDodiFrom(ProviderResponses(SyncItems, MaxDownloads))

\* what a finished syncDatabase leaves in `last`: the fetchers' results, the
\* index as it was when the sync began, the batch and the number of saveBatch
\* calls, whether the index was reachable for saveBatch, and the envelope
SyncDone(allGames, calls, reachable, response) ==
    [op |-> "syncDatabase", results |-> sync.results, before |-> sync.before,
     allGames |-> allGames, saveBatchCalls |-> calls, reachable |-> reachable,
     response |-> response]

\* mutant: the empty-batch test is missing, saveBatch is called with []
SyncJoin_NoEmptyCheck ==
    /\ sync.pc = "fetching"
    /\ \A p \in Providers : sync.results[p].settled
    /\ sync' = [pc |-> "saving", results |-> sync.results, before |-> sync.before,
                saveBatchCalls |-> sync.saveBatchCalls,
                allGames |-> AllGames(sync.results)]
    /\ UNCHANGED <<index, last, call>>

\* mutant: Promise.race, the sync goes on with the first fetcher to settle
SyncJoin_Race ==
    /\ sync.pc = "fetching"
    /\ \E p \in Providers : sync.results[p].settled
    /\ IF Len(AllGames(sync.results)) = 0
       THEN /\ sync' = SyncIdle
            /\ last' = SyncDone(<<>>, sync.saveBatchCalls, TRUE, SyncEmptyResponse)
       ELSE /\ sync' = [pc |-> "saving", results |-> sync.results,
                        before |-> sync.before,
                        saveBatchCalls |-> sync.saveBatchCalls,
                        allGames |-> AllGames(sync.results)]
            /\ last' = last
    /\ UNCHANGED <<index, call>>

\* Promise.all settles; allGames is built; an empty allGames ends the sync
SyncJoin ==
    /\ sync.pc = "fetching"
    /\ \A p \in Providers : sync.results[p].settled
    /\ IF \E p \in Providers : sync.results[p].raised
       THEN /\ sync' = SyncIdle
            /\ last' = SyncDone(<<>>, sync.saveBatchCalls, TRUE, SyncFailedResponse)
       ELSE IF Len(AllGames(sync.results)) = 0
       THEN /\ sync' = SyncIdle
            /\ last' = SyncDone(<<>>, sync.saveBatchCalls, TRUE, SyncEmptyResponse)
       ELSE /\ sync' = [pc |-> "saving", results |-> sync.results,
                        before |-> sync.before,
                        saveBatchCalls |-> sync.saveBatchCalls,
                        allGames |-> AllGames(sync.results)]
            /\ last' = last
    /\ UNCHANGED <<index, call>>

\* await this.gameRepository.saveBatch(allGames), then the envelope
SyncSave ==
    /\ sync.pc = "saving"
    /\ \E reachable \in BOOLEAN :
          LET saved == SaveBatch(index, sync.allGames, reachable)
          IN  /\ index' = IF saved.raised THEN index ELSE saved.v
              /\ last' = SyncDone(sync.allGames, sync.saveBatchCalls + 1, reachable,
                                  SyncSaveResponse(saved, sync.allGames))
    /\ sync' = SyncIdle
    /\ UNCHANGED call

Next ==
    \/ SearchGames
    \/ SearchGamesFromGoogle
    \/ SyncStart
    \/ FetchFitGirl
    \/ FetchDodi
    \/ SyncJoin
    \/ SyncSave

Spec == Init /\ [][Next]_vars

---------------------------------------------------------------------------
(* Repeated syncs against providers whose documents do not change *)

\* the two provider documents, fixed for the whole run; the index starts empty
RepeatInit ==
    /\ index = {}
    /\ sync = SyncIdle
    /\ last = NoRequest
    /\ call \in {[adapter |-> "providers", docs |-> [FitGirl |-> f, DODI |-> d]] :
                    f \in ProviderResponses(SyncItems, MaxDownloads),
                    d \in ProviderResponses(SyncItems, MaxDownloads)}

RepeatFetchFitGirl ==
    /\ call.adapter = "providers"
    /\ FetchFitGirlFrom({call.docs["FitGirl"]})

RepeatFetchDodi ==
    /\ call.adapter = "providers"
    /\ FetchDodiFrom({call.docs["DODI"]})

RepeatNext ==
    \/ SyncStart
    \/ RepeatFetchFitGirl
    \/ RepeatFetchDodi
    \/ SyncJoin
    \/ SyncSave

SpecRepeat == RepeatInit /\ [][RepeatNext]_vars

---------------------------------------------------------------------------
(* Two syncDatabase invocations in flight at once, on one index that applies *)
(* each updateDocuments call as a whole                                      *)

Invocations == {"first", "second"}

\* an invocation after it was called: awaiting Promise.all
Fetching == [pc |-> "fetching", results |-> [p \in Providers |-> Pending]]
\* an invocation that returned: the documents it had updateDocuments apply
\* (none when saveBatch was not called or failed), and its envelope
Returned(written, response) ==
    [pc |-> "returned", written |-> written, response |-> response]

\* the provider answers one fetch gets, independently of the other fetches
ConcurrentResponses == ProviderResponses(SyncItems, MaxEntries)

ConcurrentInit ==
    /\ index = {}
    /\ sync = SyncIdle
    /\ last = NoRequest
    /\ call = [adapter |-> "concurrent", inv |-> [i \in Invocations |-> Fetching]]

ConcurrentFetchFitGirl ==
    /\ call.adapter = "concurrent"
    /\ \E i \in Invocations, response \in ConcurrentResponses :
          /\ call.inv[i].pc = "fetching" /\ ~call.inv[i].results["FitGirl"].settled
          /\ call' = [call EXCEPT !.inv[i].results["FitGirl"] =
                                      Settled(FitGirlFetchGames(response))]
    /\ UNCHANGED <<index, sync, last>>

ConcurrentFetchDodi ==
    /\ call.adapter = "concurrent"
    /\ \E i \in Invocations, response \in ConcurrentResponses :
          /\ call.inv[i].pc = "fetching" /\ ~call.inv[i].results["DODI"].settled
          /\ call' = [call EXCEPT !.inv[i].results["DODI"] =
                                      Settled(DodiFetchGames(response))]
    /\ UNCHANGED <<index, sync, last>>

\* Promise.all settles; allGames is built; an empty allGames ends the call
ConcurrentJoin ==
    /\ call.adapter = "concurrent"
    /\ \E i \in Invocations :
          /\ call.inv[i].pc = "fetching"
          /\ \A p \in Providers : call.inv[i].results[p].settled
          /\ call' = [call EXCEPT !.inv[i] =
                IF \E p \in Providers : call.inv[i].results[p].raised
                THEN Returned(<<>>, SyncFailedResponse)
                ELSE IF Len(AllGames(call.inv[i].results)) = 0
                THEN Returned(<<>>, SyncEmptyResponse)
                ELSE [pc |-> "saving", allGames |-> AllGames(call.inv[i].results)]]
    /\ UNCHANGED <<index, sync, last>>

\* await saveBatch(allGames): the index applies the whole batch in one step
ConcurrentSave ==
    /\ call.adapter = "concurrent"
    /\ \E i \in Invocations, reachable \in BOOLEAN :
          /\ call.inv[i].pc = "saving"
          /\ LET allGames == call.inv[i].allGames
                 saved == SaveBatch(index, allGames, reachable)
             IN  /\ index' = IF saved.raised THEN index ELSE saved.v
                 /\ call' = [call EXCEPT !.inv[i] =
                       Returned(IF saved.raised THEN <<>>
                                ELSE [k \in 1..Len(allGames) |-> ToJson(allGames[k])],
                                SyncSaveResponse(saved, allGames))]
    /\ UNCHANGED <<sync, last>>

ConcurrentNext ==
    \/ ConcurrentFetchFitGirl
    \/ ConcurrentFetchDodi
    \/ ConcurrentJoin
    \/ ConcurrentSave

SpecConcurrent == ConcurrentInit /\ [][ConcurrentNext]_vars

---------------------------------------------------------------------------

\* Every collaborator call of a sync in flight has an outcome, and the event
\* loop runs the continuation of each settled await.
SpecFair ==
    /\ Spec
    /\ WF_vars(FetchFitGirl) /\ WF_vars(FetchDodi)
    /\ WF_vars(SyncJoin) /\ WF_vars(SyncSave)

---------------------------------------------------------------------------
(* Properties of the link-resolution policy and of the adapters *)

SearchUrlOf(adapter) == IF adapter = "FitGirl" THEN FitGirlSearchUrl ELSE DodiSearchUrl

ProviderCallDone == call.adapter \in Providers /\ call.done
HasEntries ==
    /\ call.response.net = "ok" /\ call.response.body = "object"
    /\ call.response.downloads.t = "array"
Entries == call.response.downloads.a
\* fetchGames returned one Listing per entry of `downloads`
ListingsProduced ==
    ProviderCallDone /\ HasEntries /\ ~call.result.raised
    /\ Len(call.result.v) = Len(Entries)
AccessUrl(i) == call.result.v[i].webpageUrl

HasDirectLink(item) ==
    item.t = "object" /\ item.link.t = "string" /\ item.link.s # <<>>
    /\ StartsWith(item.link.s, HttpPrefix)
\* absent, empty, or a string that does not start with http
NoValidLink(item) ==
    item.t = "object"
    /\ (item.link.t = "undefined"
        \/ (item.link.t = "string" /\ ~StartsWith(item.link.s, HttpPrefix)))
HasUris(item) == item.uris.t = "array" /\ item.uris.a # <<>>

\* C1: a record whose direct link is non-empty and starts with http gets that
\* link as accessUrl, whatever its alternative-URI list holds; and records of
\* that kind alone always yield their Listings.
C1_Tier1 ==
    ProviderCallDone /\ HasEntries =>
        /\ ListingsProduced =>
             \A i \in 1..Len(Entries) :
                 HasDirectLink(Entries[i]) => AccessUrl(i) = Entries[i].link
        /\ (\A i \in 1..Len(Entries) : HasDirectLink(Entries[i])) => ListingsProduced

C1_Witness ==
    /\ ListingsProduced /\ Len(Entries) >= 1
    /\ HasDirectLink(Entries[1]) /\ HasUris(Entries[1])
    /\ Entries[1].uris.a[1] = JsString(MagnetUri)
    /\ AccessUrl(1) = JsString(HttpsLink)

C3_Tier3 ==
    ListingsProduced =>
        \A i \in 1..Len(Entries) :
            NoValidLink(Entries[i]) /\ ~HasUris(Entries[i]) =>
                /\ AccessUrl(i).t = "string"
                /\ StartsWith(AccessUrl(i).s, SearchUrlOf(call.adapter))
                /\ Entries[i].title.s = TitlePlain =>
                     AccessUrl(i).s = SearchUrlOf(call.adapter)
                                      \o <<"G", "%", "2", "0", "1">>

C3_Witness ==
    /\ ListingsProduced /\ Len(Entries) >= 1 /\ call.adapter = "FitGirl"
    /\ Entries[1].link = JsString(FtpLink) /\ Entries[1].uris = JsArray(<<>>)
    /\ AccessUrl(1).s = FitGirlSearchUrl \o <<"G", "%", "2", "0", "1">>

C5_AccessUrlValid ==
    ListingsProduced =>
        \A i \in 1..Len(Entries) :
            /\ AccessUrl(i).t = "string" /\ AccessUrl(i).s # <<>>
            /\ \/ StartsWith(AccessUrl(i).s, HttpPrefix)
               \/ StartsWith(AccessUrl(i).s, MagnetPrefix)

\* the upstream call failed, or the document has not the expected shape
UpstreamFailed ==
    \/ call.response.net = "error"
    \/ call.response.body = "undefined"
    \/ IF call.adapter = "Google" THEN call.response.items.t # "array"
       ELSE \/ call.response.downloads.t # "array"
            \/ \E i \in 1..Len(Entries) : Entries[i].t = "null"

\* C10: the live-search adapter and both provider fetchers never raise, and
\* return the empty collection when the upstream call fails or the response
\* has an unexpected shape (downloads missing, not an array, a null entry).
C10_AbsorbsFailures ==
    call.adapter # "none" /\ call.done =>
        /\ ~call.result.raised
        /\ UpstreamFailed => call.result.v = <<>>

C10_Witness ==
    /\ call.adapter = "FitGirl" /\ call.done
    /\ call.response.net = "ok" /\ call.response.body = "object"
    /\ call.response.downloads = NotAnArray
    /\ call.result = Return(<<>>)

---------------------------------------------------------------------------
(* Properties of the searches *)

IsLinkValue(v) ==
    /\ v.t = "string" /\ v.s # <<>>
    /\ StartsWith(v.s, HttpPrefix) \/ StartsWith(v.s, MagnetPrefix)

\* C6: every Listing searchGames returns for a record a sync wrote into the
\* index carries a non-empty webpageUrl that starts with http or magnet:, and
\* no uris, magnet, downloadLinks or torrent field.
C6_HitsCarryWebpageUrl ==
    last.op = "searchGames" /\ last.response.success =>
        \A i \in 1..Len(last.response.responseObject) :
            LET game == last.response.responseObject[i]
            IN  /\ "webpageUrl" \in DOMAIN game
                /\ IsLinkValue(game.webpageUrl)
                /\ DOMAIN game \cap {"uris", "magnet", "downloadLinks", "torrent"} = {}

GoogleAnswered(upstream) == upstream.net = "ok" /\ upstream.body = "object"
\* the API answered without hits: no items field, or an empty items array
NoUpstreamHits(upstream) ==
    /\ GoogleAnswered(upstream)
    /\ \/ upstream.items.t = "undefined"
       \/ upstream.items.t = "array" /\ upstream.items.a = <<>>
\* the API answered with at least one hit, every entry of items an object
SomeUpstreamHits(upstream) ==
    /\ GoogleAnswered(upstream)
    /\ upstream.items.t = "array" /\ upstream.items.a # <<>>
    /\ \A i \in 1..Len(upstream.items.a) : upstream.items.a[i].t = "object"

\* C7: searchGamesFromGoogle answers success = false with status 404 whenever
\* the live-search adapter yields no hit, also when the upstream response has
\* no items field.
C7_NoHitsIs404 ==
    /\ last.op = "searchGamesFromGoogle"
    /\ \/ NoUpstreamHits(last.upstream)
       \/ FetchFromDirectory(last.upstream).v = <<>>
    => /\ ~last.response.success
       /\ last.response.statusCode = 404
       /\ last.response.responseObject = <<>>

C7_Witness ==
    /\ last.op = "searchGamesFromGoogle"
    /\ GoogleAnswered(last.upstream) /\ last.upstream.items.t = "undefined"
    /\ ~last.response.success /\ last.response.statusCode = 404

\* C8: with at least one upstream hit searchGamesFromGoogle answers success =
\* true with status 200 and one Listing per hit in upstream order; each
\* Listing carries title, webpageUrl, source and snippet copied from its hit,
\* and no id, size or uploadDate.
C8_HitsAre200 ==
    last.op = "searchGamesFromGoogle" /\ SomeUpstreamHits(last.upstream) =>
        LET hits == last.upstream.items.a
            games == last.response.responseObject
        IN  /\ last.response.success
            /\ last.response.statusCode = 200
            /\ Len(games) = Len(hits)
            /\ \A i \in 1..Len(hits) :
                  /\ DOMAIN games[i] = {"title", "webpageUrl", "source", "snippet"}
                  /\ games[i].title = hits[i].title
                  /\ games[i].webpageUrl = hits[i].link
                  /\ games[i].source = hits[i].displayLink
                  /\ games[i].snippet = hits[i].snippet

C8_Witness ==
    /\ last.op = "searchGamesFromGoogle" /\ SomeUpstreamHits(last.upstream)
    /\ Len(last.upstream.items.a) = 2
    /\ last.response.statusCode = 200
    /\ Len(last.response.responseObject) = 2
    /\ last.response.responseObject[1].webpageUrl = JsString(OtherHttps)
    /\ last.response.responseObject[2].webpageUrl = JsString(HttpsLink)
    /\ last.response.responseObject[2].snippet.t = "string"

\* C9: when the upstream live-search call fails in transport,
\* searchGamesFromGoogle answers a failure envelope with status 500, not the
\* 404 of an empty result.
C9_TransportFailureIs500 ==
    last.op = "searchGamesFromGoogle" /\ last.upstream.net = "error" =>
        /\ ~last.response.success
        /\ last.response.statusCode = 500

---------------------------------------------------------------------------
(* Properties of the indexed search and of the sync *)

\* C11: a search of the index with an empty query is answered with a
\* validation failure, status 400, and gameRepository.search is not called for
\* that request.
C11_EmptyQueryIs400 ==
    /\ \/ last.op = "searchGames"
       \/ last.op = "rejected" /\ last.route = "searchGames"
    /\ last.query = <<>>
    => /\ last.op = "rejected"
       /\ ~last.response.success
       /\ last.response.statusCode = 400
       /\ last.adapterCalls = 0

C11_Witness ==
    /\ last.op = "rejected" /\ last.route = "searchGames" /\ last.query = <<>>
    /\ last.response.statusCode = 400
    /\ index # {}

C13_UnreachableIs500 ==
    last.op = "searchGames" /\ ~last.reachable =>
        /\ last.found.raised
        /\ ~last.response.success
        /\ last.response.statusCode = 500
        /\ last.response.responseObject = <<>>

C13_Witness ==
    /\ last.op = "searchGames" /\ ~last.reachable /\ last.found.raised
    /\ last.response.statusCode = 500 /\ index # {}

\* C14: no Listing searchGames returns has a snippet property, whatever the
\* syncs wrote into the index.
C14_NoSnippet ==
    last.op = "searchGames" =>
        \A i \in 1..Len(last.response.responseObject) :
            "snippet" \notin DOMAIN last.response.responseObject[i]

C14_Witness ==
    /\ last.op = "searchGames" /\ last.response.success
    /\ Len(last.response.responseObject) = 2
    /\ last.response.responseObject[1].source = JsString(DodiSource)
    /\ last.response.responseObject[2].source = JsString(FitGirlSource)
    /\ "snippet" \notin DOMAIN last.response.responseObject[1]

AllFetchersEmpty == \A p \in Providers : last.results[p].v = <<>>

C16_NonEmptySavesOnce ==
    last.op = "syncDatabase" /\ ~AllFetchersEmpty =>
        /\ last.saveBatchCalls = 1
        /\ last.allGames = last.results["FitGirl"].v \o last.results["DODI"].v
        /\ last.reachable =>
              /\ last.response.success
              /\ last.response.statusCode = 200
              /\ index = UpdateDocuments(last.before, last.allGames)

C16_Witness ==
    /\ last.op = "syncDatabase" /\ last.reachable
    /\ last.results["FitGirl"].v = <<>> /\ Len(last.results["DODI"].v) = 2
    /\ last.saveBatchCalls = 1 /\ last.response.statusCode = 200
    /\ last.allGames = last.results["DODI"].v

\* C17: when saveBatch fails during syncDatabase, the answer is success = false
\* with status 500, and the index keeps its former content.
C17_SaveFailureIs500 ==
    last.op = "syncDatabase" /\ last.saveBatchCalls = 1 /\ ~last.reachable =>
        /\ ~last.response.success
        /\ last.response.statusCode = 500
        /\ index = last.before

C17_Witness ==
    /\ last.op = "syncDatabase" /\ last.saveBatchCalls = 1 /\ ~last.reachable
    /\ last.allGames # <<>>
    /\ last.response.statusCode = 500 /\ ~last.response.success

ServiceOps == {"searchGames", "searchGamesFromGoogle", "syncDatabase"}

IsEnvelope(r) ==
    /\ DOMAIN r = {"success", "message", "responseObject", "statusCode"}
    /\ r.success \in BOOLEAN
    /\ r.statusCode \in Nat

\* C18: whatever the collaborators did (answered, rejected, sent malformed
\* data), every call of searchGames, searchGamesFromGoogle and syncDatabase
\* ends by returning an envelope: a served request always carries one, and a
\* sync in flight always comes to its end.
C18_AlwaysAnEnvelope ==
    /\ [](last.op \in ServiceOps => IsEnvelope(last.response))
    /\ (sync.pc # "idle") ~> (sync.pc = "idle" /\ last.op = "syncDatabase")

C18_Witness ==
    /\ sync.pc = "idle" /\ last.op = "syncDatabase"
    /\ last.results["FitGirl"].v = <<>> /\ last.results["DODI"].v # <<>>
    /\ ~last.reachable /\ last.saveBatchCalls = 1
    /\ IsEnvelope(last.response)

SearchOps == {"searchGames", "searchGamesFromGoogle", "rejected"}

\* C19: only syncDatabase changes the index. A step that serves a search
\* request (accepted or rejected, whatever its outcome) leaves the index as it
\* is, and the index changes only in the saveBatch step of a sync.
C19_OnlySyncWrites ==
    [][/\ (sync.pc = "idle" /\ last'.op \in SearchOps) => index' = index
       /\ index' # index =>
             /\ sync.pc = "saving" /\ last'.op = "syncDatabase"
             /\ last'.saveBatchCalls = 1]_vars

C19_Witness ==
    /\ last.op = "searchGamesFromGoogle" /\ last.response.success
    /\ Len(last.response.responseObject) = 2
    /\ Cardinality(index) = 2
    /\ \A d \in index : d.source \in {JsString(FitGirlSource), JsString(DodiSource)}

UniqueIds == \A d1, d2 \in index : d1.id = d2.id => d1 = d2

\* C20: with providers that return the same raw records at every sync, the
\* index holds one record per id, and once a sync has written its records
\* (the index started empty), no later sync changes the index.
C20_RepeatedSyncsConverge ==
    /\ []UniqueIds
    /\ [][index # {} => index' = index]_vars

\* a second sync has saved its batch and left the index as the first one did
C20_Witness ==
    /\ last.op = "syncDatabase" /\ last.reachable /\ last.saveBatchCalls = 1
    /\ last.response.statusCode = 200
    /\ last.before # {} /\ index = last.before
    /\ Len(last.allGames) > Cardinality(index)

---------------------------------------------------------------------------
(* Properties of identifiers, of the join and of the envelopes *)

SameProviderAndTitle(g, h) == g.source = h.source /\ g.title = h.title

\* C21: two Listings of the same provider and title have the same id, whether
\* they come from one sync (the fetched batch) or from different syncs (the
\* documents earlier syncs stored), whatever their link, uris, size and upload
\* date are.
C21_IdDeterministic ==
    last.op = "syncDatabase" =>
        \A i \in 1..Len(last.allGames) :
            /\ \A j \in 1..Len(last.allGames) :
                  SameProviderAndTitle(last.allGames[i], last.allGames[j])
                      => last.allGames[i].id = last.allGames[j].id
            /\ \A d \in last.before \cup index :
                  SameProviderAndTitle(last.allGames[i], d)
                      => last.allGames[i].id = d.id

C21_Witness ==
    /\ last.op = "syncDatabase" /\ Len(last.allGames) >= 2
    /\ last.allGames[1].source = JsString(FitGirlSource)
    /\ SameProviderAndTitle(last.allGames[1], last.allGames[2])
    /\ last.allGames[1].webpageUrl # last.allGames[2].webpageUrl
    /\ last.allGames[1].size # last.allGames[2].size
    /\ last.allGames[1].uploadDate # last.allGames[2].uploadDate
    /\ last.allGames[1].id = last.allGames[2].id
    /\ \E d \in last.before : d.id = last.allGames[1].id

\* what each fetcher does on the provider's document of this run
FetcherFailed(p) ==
    IF p = "FitGirl" THEN FitGirlTry(call.docs[p]).raised
    ELSE DodiTry(call.docs[p]).raised
FetcherGames(p) ==
    IF p = "FitGirl" THEN FitGirlFetchGames(call.docs[p]).v
    ELSE DodiFetchGames(call.docs[p]).v

\* C22: syncDatabase builds its batch only when every fetcher has settled, and
\* a fetcher that failed does not abort it: if another fetcher returned
\* records, the batch holds all of them, saveBatch is called once, and (the
\* index being reachable) the records are in the index and the answer is 200.
C22_JoinNotRace ==
    /\ sync.pc = "saving" => \A p \in Providers : sync.results[p].settled
    /\ last.op = "syncDatabase" =>
          /\ \A p \in Providers :
                last.results[p].settled /\ last.results[p].v = FetcherGames(p)
          /\ \A p, q \in Providers :
                FetcherFailed(p) /\ FetcherGames(q) # <<>> =>
                    /\ last.saveBatchCalls = 1
                    /\ \A i \in 1..Len(FetcherGames(q)) :
                          \E k \in 1..Len(last.allGames) :
                              last.allGames[k] = FetcherGames(q)[i]
                    /\ last.reachable =>
                          /\ last.response.success
                          /\ last.response.statusCode = 200
                          /\ \A i \in 1..Len(FetcherGames(q)) :
                                \E d \in index : d.id = FetcherGames(q)[i].id

C22_Witness ==
    /\ last.op = "syncDatabase" /\ last.reachable
    /\ FetcherFailed("FitGirl") /\ call.docs["FitGirl"].net = "error"
    /\ Len(FetcherGames("DODI")) = 2
    /\ last.allGames = FetcherGames("DODI")
    /\ last.response.statusCode = 200
    /\ index # {}

BothReturned == \A i \in Invocations : call.inv[i].pc = "returned"

\* C23: once two concurrent syncDatabase invocations have both returned, the
\* index holds at most one document per id, and every stored document is a
\* document that one of the two invocations wrote (last writer wins per id).
C23_LastWriterWins ==
    BothReturned =>
        /\ UniqueIds
        /\ \A d \in index :
              \E i \in Invocations : \E k \in 1..Len(call.inv[i].written) :
                  call.inv[i].written[k] = d

EncodedTitlePlain == <<"G", "%", "2", "0", "1">>

IsSearchPageUrl(i) ==
    /\ AccessUrl(i).t = "string"
    /\ AccessUrl(i).s = SearchUrlOf(call.adapter) \o EncodedTitlePlain
    /\ ~StartsWith(AccessUrl(i).s, MagnetPrefix)
    /\ \A k \in 1..Len(Entries[i].uris.a) : AccessUrl(i) # Entries[i].uris.a[k]

TierOf(item, url, searchUrl) ==
    IF HasDirectLink(item) /\ url = item.link THEN "direct link"
    ELSE IF HasUris(item) /\ Truthy(item.uris.a[1]) /\ url = item.uris.a[1]
    THEN "first alternative URI"
    ELSE IF url.t = "string" /\ StartsWith(url.s, searchUrl) THEN "search page"
    ELSE "none"

\* the characters of s after its first n
Rest(s, n) == SubSeq(s, n + 1, Len(s))

\* C26: on one and the same provider document the FitGirl and the DODI
\* fetcher return equally many Listings, and for each raw record the two
\* accessUrls come from the same tier, are equal when that tier is the direct
\* link or the first alternative URI, and for the search page differ in the
\* provider's search-page address only.
C26_SamePolicy ==
    ProviderCallDone =>
        LET f == FitGirlFetchGames(call.response).v
            d == DodiFetchGames(call.response).v
        IN  /\ call.result.v = IF call.adapter = "FitGirl" THEN f ELSE d
            /\ Len(f) = Len(d)
            /\ \A i \in 1..Len(f) :
                  LET tf == TierOf(Entries[i], f[i].webpageUrl, FitGirlSearchUrl)
                      td == TierOf(Entries[i], d[i].webpageUrl, DodiSearchUrl)
                  IN  /\ tf = td /\ tf # "none"
                      /\ tf # "search page" => f[i].webpageUrl = d[i].webpageUrl
                      /\ tf = "search page" =>
                            Rest(f[i].webpageUrl.s, Len(FitGirlSearchUrl))
                                = Rest(d[i].webpageUrl.s, Len(DodiSearchUrl))

C26_Witness ==
    /\ ListingsProduced /\ Len(Entries) >= 1 /\ call.adapter = "DODI"
    /\ Entries[1].link = JsString(UpperLink) /\ ~HasUris(Entries[1])
    /\ AccessUrl(1).s = DodiSearchUrl \o EncodedTitlePlain
    /\ FitGirlFetchGames(call.response).v[1].webpageUrl.s
           = FitGirlSearchUrl \o EncodedTitlePlain

\* the documents of the index that the batch of the last sync wrote
StoredForBatch == {d \in index : \E i \in 1..Len(last.allGames) : last.allGames[i].id = d.id}

\* C27: the count in the success message of syncDatabase is the length of the
\* batch passed to saveBatch, the sum of the lengths of the fetchers' results;
\* when two records of the batch share an id, that count is greater than the
\* number of documents the index holds for the batch.
C27_CountIsBatchLength ==
    last.op = "syncDatabase" /\ last.response.success =>
        /\ last.response.message =
              <<"Successfully synced ",
                ToString(Len(last.results["FitGirl"].v) + Len(last.results["DODI"].v)),
                " games">>
        /\ Len(last.allGames) = Len(last.results["FitGirl"].v) + Len(last.results["DODI"].v)
        /\ (\E i, j \in 1..Len(last.allGames) :
                i # j /\ last.allGames[i].id = last.allGames[j].id)
           => Len(last.allGames) > Cardinality(StoredForBatch)

C27_Witness ==
    /\ last.op = "syncDatabase" /\ last.response.success
    /\ Len(last.results["FitGirl"].v) = 2 /\ Len(last.results["DODI"].v) = 1
    /\ last.allGames[1].id = last.allGames[2].id
    /\ last.response.message[2] = "3"
    /\ Cardinality(StoredForBatch) = 2

EntryThrows(p, item) ==
    IF p = "FitGirl" THEN FitGirlGame(item).raised ELSE DodiGame(item).raised
MixedDocument(p) ==
    /\ call.docs[p].net = "ok" /\ call.docs[p].body = "object"
    /\ call.docs[p].downloads.t = "array"
    /\ \E i \in 1..Len(call.docs[p].downloads.a) :
          EntryThrows(p, call.docs[p].downloads.a[i])
    /\ \E i \in 1..Len(call.docs[p].downloads.a) :
          ~EntryThrows(p, call.docs[p].downloads.a[i])

\* C29: when one entry of a provider's downloads array cannot be normalised
\* (a null entry), that provider's fetcher returns the empty collection, not
\* the Listings of its other entries, and the other provider's result in the
\* same sync is what it is without that failure: one Listing per entry of its
\* own document.
C29_AllOrNothing ==
    last.op = "syncDatabase" =>
        \A p, q \in Providers :
            p # q /\ MixedDocument(p) =>
                /\ last.results[p].v = <<>>
                /\ \A k \in 1..Len(last.allGames) :
                      last.allGames[k].source # (IF p = "FitGirl"
                                                 THEN JsString(FitGirlSource)
                                                 ELSE JsString(DodiSource))
                /\ ~FetcherFailed(q) /\ call.docs[q].downloads.t = "array" =>
                      Len(last.results[q].v) = Len(call.docs[q].downloads.a)

C29_Witness ==
    /\ last.op = "syncDatabase"
    /\ MixedDocument("FitGirl")
    /\ last.results["FitGirl"].v = <<>>
    /\ ~FetcherFailed("DODI") /\ Len(last.results["DODI"].v) = 2
    /\ last.allGames = last.results["DODI"].v
    /\ last.response.statusCode = 200

====
